---- MODULE Spec2Model ----
(***************************************************************************)
(* Hik-Camera-Server: the ANPR event ingestion endpoint (express + multer  *)
(* upload middleware), the SQLite event store (class Database) and the     *)
(* dashboard read endpoint.                                                *)
(*                                                                         *)
(* Strings are sequences of one-character strings, so that SQL LIKE and    *)
(* the BINARY (memcmp) comparison of dateTime can be computed.  An absent  *)
(* query parameter (JavaScript undefined, SQL NULL) is the value NULL.     *)
(* The optional columns country, lane, direction, confidenceLevel and      *)
(* macAddress are copied from the query unread and are left out.           *)
(***************************************************************************)
EXTENDS Integers, Sequences, FiniteSets, TLC

VARIABLES
    events,     \* the rows of table events, in rowid order
    seq,        \* sqlite_sequence: the largest id AUTOINCREMENT has given out
    uploads,    \* the upload directory: file name -> content
    now,        \* the wall clock in milliseconds (new Date())
    req,        \* the POST requests in flight, by request
    dash,       \* the dashboard GET in flight
    qres,       \* what the last getAllEvents call resolved to
    sres        \* what the last getEventStats call resolved to

vars == <<events, seq, uploads, now, req, dash, qres, sres>>

(***************************************************************************)
(* Bounds.                                                                 *)
(***************************************************************************)
NReq == 2           \* POST requests in one run
MaxClock == 1       \* the clock runs from 0 to MaxClock
MaxRows == 2        \* rows the store-level specification inserts
MaxDashRows == 101  \* rows of the largest table the dashboard reads

(***************************************************************************)
(* Values.                                                                 *)
(***************************************************************************)
NULL == <<"<null>">>
EMPTY == << >>

\* the characters in use, in ASCII order
CharOrder == <<"%", "0", "1", "9", "A", "B", "_", "a", "b">>

Code(c) == CHOOSE i \in 1..Len(CharOrder) : CharOrder[i] = c

\* sqlite3UpperToLower: LIKE folds the case of ASCII letters
Lower(c) == IF c = "A" THEN "a" ELSE IF c = "B" THEN "b" ELSE c

\* JavaScript truthiness of a query parameter: undefined and "" are falsy
Truthy(v) == v # NULL /\ v # EMPTY

RECURSIVE BinaryLess(_, _)
\* s < t under the BINARY collation (memcmp, then length)
BinaryLess(s, t) ==
    IF t = EMPTY THEN FALSE
    ELSE IF s = EMPTY THEN TRUE
    ELSE IF Head(s) = Head(t) THEN BinaryLess(Tail(s), Tail(t))
    ELSE Code(Head(s)) < Code(Head(t))

BinaryLeq(s, t) == s = t \/ BinaryLess(s, t)

RECURSIVE PatternCompare(_, _)
\* SQLite's patternCompare for LIKE: % matches any run, _ any one character,
\* every other character matches itself with ASCII case folded; no ESCAPE
PatternCompare(p, s) ==
    IF p = EMPTY THEN s = EMPTY
    ELSE IF Head(p) = "%"
         THEN \E k \in 0..Len(s) : PatternCompare(Tail(p), SubSeq(s, k + 1, Len(s)))
    ELSE IF s = EMPTY THEN FALSE
    ELSE IF Head(p) = "_" THEN PatternCompare(Tail(p), Tail(s))
    ELSE Lower(Head(p)) = Lower(Head(s)) /\ PatternCompare(Tail(p), Tail(s))

(***************************************************************************)
(* class Database (src/database.js).                                       *)
(***************************************************************************)
Fields == {"licensePlate", "vehicle", "detection"}

\* the NOT NULL constraints of CREATE TABLE events: undefined binds as NULL
NotNullOK(event) ==
    /\ event.channelID # NULL
    /\ event.dateTime # NULL
    /\ event.eventType # NULL
    /\ event.licensePlate # NULL

\* the row INSERT INTO events builds from its twelve parameters
NewRow(id, event) ==
    [id |-> id,
     channelID |-> event.channelID,
     dateTime |-> event.dateTime,
     eventType |-> event.eventType,
     licensePlate |-> event.licensePlate,
     licensePlateImage |-> event.images.licensePlate,
     vehicleImage |-> event.images.vehicle,
     detectionImage |-> event.images.detection]

\* the pattern bound to licensePlate LIKE ?
LikeParam(filter) == <<"%">> \o filter \o <<"%">>

\* the WHERE clause getAllEvents assembles: one condition per truthy option
Where(row, options) ==
    /\ Truthy(options.licensePlate) =>
           PatternCompare(LikeParam(options.licensePlate), row.licensePlate)
    /\ Truthy(options.dateFrom) => BinaryLeq(options.dateFrom, row.dateTime)
    /\ Truthy(options.dateTo) => BinaryLeq(row.dateTime, options.dateTo)

\* ORDER BY dateTime DESC names no second key: SQL leaves the order of rows
\* with equal dateTime to the engine (rowid order of a forward scan through
\* a stable sorter, or the reverse under a backward scan)
TieOrders == {"rowid asc", "rowid desc"}

Reverse(rows) == [i \in 1..Len(rows) |-> rows[Len(rows) + 1 - i]]

\* the rows of one dateTime, in the order the engine returns them
Group(rows, dateTime, tie) ==
    LET same == SelectSeq(rows, LAMBDA row : row.dateTime = dateTime)
    IN  IF tie = "rowid asc" THEN same ELSE Reverse(same)

RECURSIVE OrderGroups(_, _, _)
\* the groups of the dateTime values in dates, the greatest dateTime first
OrderGroups(rows, dates, tie) ==
    IF dates = {} THEN << >>
    ELSE LET top == CHOOSE d \in dates : \A e \in dates : BinaryLeq(e, d)
         IN  Group(rows, top, tie) \o OrderGroups(rows, dates \ {top}, tie)

\* the rows in the order ORDER BY dateTime DESC returns them
OrderBy(rows, tie) ==
    OrderGroups(rows, {rows[i].dateTime : i \in 1..Len(rows)}, tie)

\* options.limit is << >> when absent and <<n>> when given
NoLimit == << >>

\* if (options.limit) sql += ' LIMIT ?': 0 is falsy, a negative LIMIT is no limit
Limit(rows, limit) ==
    IF limit = NoLimit \/ limit[1] = 0 \/ limit[1] < 0 \/ limit[1] >= Len(rows)
    THEN rows
    ELSE SubSeq(rows, 1, limit[1])

\* the rows db.all resolves getAllEvents to
GetAllEvents(table, options, tie) ==
    Limit(OrderBy(SelectSeq(table, LAMBDA row : Where(row, options)), tie),
          options.limit)

\* COUNT(column), the DISTINCT lost
CountValues(values) == Len(values)

\* COUNT(DISTINCT column): a value counts where it occurs first
CountDistinct(values) ==
    Cardinality({i \in 1..Len(values) : \A j \in 1..(i - 1) : values[j] # values[i]})

\* MAX(column) under BINARY: a value none exceeds; NULL over no rows
MaxBinary(values) ==
    IF values = << >> THEN NULL
    ELSE values[CHOOSE i \in 1..Len(values) :
                    \A j \in 1..Len(values) : ~BinaryLess(values[i], values[j])]

Column(table, c) == [i \in 1..Len(table) |-> table[i][c]]

\* the row db.get resolves getEventStats to
GetEventStats(table) ==
    [totalEvents |-> Len(table),
     uniqueVehicles |-> CountDistinct(Column(table, "licensePlate")),
     activeChannels |-> CountDistinct(Column(table, "channelID")),
     lastDetection |-> MaxBinary(Column(table, "dateTime"))]

(***************************************************************************)
(* The upload middleware: multer.diskStorage, fileFilter and limits.       *)
(* multer takes the image parts in body order: it asks fileFilter, then    *)
(* the storage for destination and file name, and writes the part there.   *)
(* When fileFilter refuses a part or a part runs over limits.fileSize, it  *)
(* removes through the storage (fs.unlink) every file the request has      *)
(* uploaded so far and passes the error to next(err); when the body is     *)
(* through it calls next() and the route handler runs.                     *)
(***************************************************************************)
\* the three fields of upload.fields, by the key the handler files them under
\* (licensePlatePicture.jpg, vehiclePicture.jpg, detectionPicture.jpg)
FieldOrder == <<"licensePlate", "vehicle", "detection">>

MimeTypes == {"image/jpeg", "image/png"}

\* fileFilter: only image/jpeg passes
FileFilter(mimetype) == mimetype = "image/jpeg"

\* limits.fileSize
FileSizeLimit == 10 * 1024 * 1024

\* the sizes of an image part that are tried
Sizes == {1, FileSizeLimit, FileSizeLimit + 1}

\* path.extname(file.originalname), of the client's file name
Exts == {<<".jpg">>}

\* new Date().toISOString().replace(/[:.]/g, '-'): one stamp per millisecond
Stamp(t) == <<"T", ToString(t), "Z">>

\* storage.filename: `${licensePlate}_${timestamp}${fileExt}`
Filename(licensePlate, t, ext) ==
    (IF Truthy(licensePlate) THEN licensePlate ELSE <<"unknown">>)
        \o <<"_">> \o Stamp(t) \o ext

\* what an image part of request r under field f holds
Content(r, f) == <<r, f>>

\* fs.createWriteStream(path) piped to the end: the file holds the part
WriteFile(dir, name, content) ==
    [n \in DOMAIN dir \cup {name} |-> IF n = name THEN content ELSE dir[n]]

\* storage._removeFile: fs.unlink of each named file
RemoveFiles(dir, names) == [n \in DOMAIN dir \ names |-> dir[n]]

(***************************************************************************)
(* app.post(['/', '/hik']): the handler behind the upload middleware.      *)
(***************************************************************************)
\* the check with its last operand lost: !channelID || !dateTime || !eventType
ValidateWithoutPlate(query) ==
    /\ Truthy(query.channelID)
    /\ Truthy(query.dateTime)
    /\ Truthy(query.eventType)

\* if (!channelID || !dateTime || !eventType || !licensePlate) return 400
Validate(query) ==
    /\ Truthy(query.channelID)
    /\ Truthy(query.dateTime)
    /\ Truthy(query.eventType)
    /\ Truthy(query.licensePlate)

\* the legacy reference taken from the license-plate image alone
FirstFilePlateOnly(files) == files.licensePlate

\* uploadedFiles.licensePlate || uploadedFiles.vehicle || uploadedFiles.detection
FirstFile(files) ==
    IF files.licensePlate # NULL THEN files.licensePlate
    ELSE IF files.vehicle # NULL THEN files.vehicle
    ELSE files.detection

\* the images object with the vehicle entry read from the wrong field
EventImagesWrongField(files) ==
    [licensePlate |-> files.licensePlate,
     vehicle |-> files.licensePlate,
     detection |-> files.detection]

\* images: uploadedFiles.<field>?.filename || null
EventImages(files) ==
    [licensePlate |-> files.licensePlate,
     vehicle |-> files.vehicle,
     detection |-> files.detection]

\* the event object the handler builds
MakeEvent(query, files) ==
    [channelID |-> query.channelID,
     dateTime |-> query.dateTime,
     eventType |-> query.eventType,
     licensePlate |-> query.licensePlate,
     imageFile |-> FirstFile(files),
     images |-> EventImages(files)]

NoFiles == [f \in Fields |-> NULL]

\* the query and the event of a request before they are read and built
NoQuery == [channelID |-> NULL, dateTime |-> NULL, eventType |-> NULL,
            licensePlate |-> NULL]
NoEvent == MakeEvent(NoQuery, NoFiles)

\* a request that has not arrived
NewRequest ==
    [pc |-> "new", query |-> NoQuery, carried |-> {}, parts |-> << >>,
     files |-> NoFiles, rejected |-> "", event |-> NoEvent,
     status |-> 0, error |-> "", id |-> 0]

\* the handler, run when the middleware calls next(): 400, or the insert issued
Handle(request, files) ==
    IF ~Validate(request.query)
    THEN [request EXCEPT !.pc = "done", !.files = files, !.status = 400,
                         !.error = "Missing required parameters"]
    ELSE [request EXCEPT !.pc = "inserting", !.files = files,
                         !.event = MakeEvent(request.query, files)]

\* the error-handling middleware that logs the error and sends nothing
ErrorMiddlewareSilent(request, cause) ==
    [request EXCEPT !.pc = "failed", !.rejected = cause]

\* the error-handling middleware, reached through next(err)
ErrorMiddleware(request, cause) ==
    [request EXCEPT !.pc = "done", !.rejected = cause, !.status = 500,
                    !.error = "Internal server error"]

(***************************************************************************)
(* The submissions that are tried.                                         *)
(***************************************************************************)
Plate1 == <<"a", "b">>
Channel1 == <<"1">>
Date1 == <<"1", "0">>
Type1 == <<"A">>

GoodQuery == [channelID |-> Channel1, dateTime |-> Date1, eventType |-> Type1,
              licensePlate |-> Plate1]

\* the complete query, and the queries with one required parameter absent or
\* empty
Queries ==
    {GoodQuery,
     [GoodQuery EXCEPT !.channelID = NULL],
     [GoodQuery EXCEPT !.dateTime = EMPTY],
     [GoodQuery EXCEPT !.eventType = NULL],
     [GoodQuery EXCEPT !.licensePlate = NULL],
     [GoodQuery EXCEPT !.licensePlate = EMPTY]}

PartsOf(S) == SelectSeq(FieldOrder, LAMBDA f : f \in S)

\* the files this request has put into the upload directory (uploadedFiles)
Stored(request) == {request.files[f] : f \in Fields} \ {NULL}

(***************************************************************************)
(* Actions of the server.                                                  *)
(***************************************************************************)
Requests == 1..NReq

\* the clock reaches the next millisecond (while a request may still read it)
Tick ==
    /\ now < MaxClock
    /\ \E r \in Requests : req[r].pc \in {"new", "upload"}
    /\ now' = now + 1
    /\ UNCHANGED <<events, seq, uploads, req, dash, qres, sres>>

\* a POST arrives carrying query q and one image part for each field of S;
\* a body without image parts goes through the middleware to the handler
\* (requests are numbered in the order they arrive)
Receive(r) ==
    /\ req[r].pc = "new"
    /\ \A o \in Requests : o < r => req[o].pc # "new"
    /\ \E q \in Queries, S \in SUBSET Fields :
           LET request == [NewRequest EXCEPT !.pc = "upload", !.query = q,
                                             !.carried = S, !.parts = PartsOf(S)]
           IN  req' = [req EXCEPT ![r] = IF S = {} THEN Handle(request, NoFiles)
                                                   ELSE request]
    /\ UNCHANGED <<events, seq, uploads, now, dash, qres, sres>>

\* the middleware takes the next image part of the body: the filter refuses
\* it, or it is named and written, or it runs over the size limit; on a
\* refusal multer unlinks what this request has uploaded and calls next(err);
\* after the last part it calls next() and the handler runs
StorePart(r) ==
    /\ req[r].pc = "upload"
    /\ \E mimetype \in MimeTypes, size \in Sizes, ext \in Exts :
           LET request == req[r]
               f == Head(request.parts)
               rest == Tail(request.parts)
               name == Filename(request.query.licensePlate, now, ext)
               files == [request.files EXCEPT ![f] = name]
           IN  IF ~FileFilter(mimetype)
               THEN /\ uploads' = RemoveFiles(uploads, Stored(request))
                    /\ req' = [req EXCEPT ![r] = ErrorMiddleware(request,
                                         "Only JPEG images are allowed")]
               ELSE IF size > FileSizeLimit
               THEN /\ uploads' = RemoveFiles(uploads, Stored(request) \cup {name})
                    /\ req' = [req EXCEPT ![r] = ErrorMiddleware(request,
                                         "LIMIT_FILE_SIZE")]
               ELSE /\ uploads' = WriteFile(uploads, name, Content(r, f))
                    /\ req' = [req EXCEPT ![r] =
                                 IF rest = << >>
                                 THEN Handle([request EXCEPT !.parts = rest], files)
                                 ELSE [request EXCEPT !.parts = rest,
                                                      !.files = files]]
    /\ UNCHANGED <<events, seq, now, dash, qres, sres>>

\* the insert with the sequence left where it was: the next insert is given
\* the same id again
InsertEventSequenceKept(table, last, event, ioError) ==
    IF ioError \/ ~NotNullOK(event)
    THEN [events |-> table, seq |-> last, lastID |-> 0, err |-> TRUE]
    ELSE [events |-> Append(table, NewRow(last + 1, event)), seq |-> last,
          lastID |-> last + 1, err |-> FALSE]

\* the insert as INSERT OR REPLACE over a table keyed by the plate: the rows
\* of the same licensePlate are dropped
InsertEventReplacing(table, last, event, ioError) ==
    IF ioError \/ ~NotNullOK(event)
    THEN [events |-> table, seq |-> last, lastID |-> 0, err |-> TRUE]
    ELSE [events |-> Append(SelectSeq(table, LAMBDA row :
                                row.licensePlate # event.licensePlate),
                            NewRow(last + 1, event)),
          seq |-> last + 1, lastID |-> last + 1, err |-> FALSE]

\* db.run executes the INSERT of insertEvent: the row is appended under the
\* next AUTOINCREMENT id and the promise resolves with it, or the statement
\* fails (a NOT NULL constraint, or the storage) and the promise rejects
InsertEvent(table, last, event, ioError) ==
    IF ioError \/ ~NotNullOK(event)
    THEN [events |-> table, seq |-> last, lastID |-> 0, err |-> TRUE]
    ELSE [events |-> Append(table, NewRow(last + 1, event)), seq |-> last + 1,
          lastID |-> last + 1, err |-> FALSE]

\* the promise of insertEvent settles: resolve(this.lastID), or reject(err)
Settle(request, done) ==
    IF done.err THEN [request EXCEPT !.pc = "rejected"]
    ELSE [request EXCEPT !.pc = "resolved", !.id = done.lastID]

\* the success response with every submission, the catch block let go
AnswerSuccessOnly(request) ==
    [request EXCEPT !.pc = "done", !.status = 200]

\* the handler goes on after the await: res.json success (200), or the 500
\* of its catch block
Answer(request) ==
    IF request.pc = "rejected"
    THEN [request EXCEPT !.pc = "done", !.status = 500,
                         !.error = "Internal server error"]
    ELSE [request EXCEPT !.pc = "done", !.status = 200]

\* await db.insertEvent(event) settles and the handler answers 200, or 500
\* from its catch block
RunInsert(r) ==
    /\ req[r].pc = "inserting"
    /\ \E ioError \in BOOLEAN :
           LET done == InsertEvent(events, seq, req[r].event, ioError)
           IN  /\ events' = done.events
               /\ seq' = done.seq
               /\ req' = [req EXCEPT ![r] = Answer(Settle(@, done))]
    /\ UNCHANGED <<uploads, now, dash, qres, sres>>

NoDash == [pc |-> "idle"]
NoResult == [pc |-> "none"]

Init ==
    /\ events = << >>
    /\ seq = 0
    /\ uploads = [n \in {} |-> NULL]
    /\ now = 0
    /\ req = [r \in Requests |-> NewRequest]
    /\ dash = NoDash
    /\ qres = NoResult
    /\ sres = NoResult

Next ==
    \/ Tick
    \/ \E r \in Requests : Receive(r)
    \/ \E r \in Requests : StorePart(r)
    \/ \E r \in Requests : RunInsert(r)

Spec == Init /\ [][Next]_vars

\* the ingestion endpoint with the event loop running every pending step:
\* a request that has arrived has its parts taken and its insert settled
Fairness ==
    \A r \in Requests : WF_vars(StorePart(r)) /\ WF_vars(RunInsert(r))

FairSpec == Spec /\ Fairness

(***************************************************************************)
(* The event store driven directly: insertEvent, getAllEvents and          *)
(* getEventStats called in any order.                                      *)
(***************************************************************************)
NoImages == [f \in Fields |-> NULL]

StoreEvent(channelID, dateTime, licensePlate) ==
    [channelID |-> channelID, dateTime |-> dateTime, eventType |-> Type1,
     licensePlate |-> licensePlate, imageFile |-> NULL, images |-> NoImages]

\* the events that are inserted: equal and different dateTime ("9" sorts
\* after "10"), plates that differ only in case, two channels
StoreEvents ==
    {StoreEvent(<<"1">>, <<"1", "0">>, <<"a", "b">>),
     StoreEvent(<<"1">>, <<"9">>, <<"A", "b">>),
     StoreEvent(<<"0">>, <<"1", "0">>, <<"b">>)}

PlateFilters == {NULL, EMPTY, <<"a">>, <<"_", "b">>}
DatesFrom == {NULL, EMPTY, <<"1">>, <<"9">>}
DatesTo == {NULL, <<"1", "0">>}
Limits == {NoLimit, <<0>>, <<1>>}

StoreOptions ==
    [licensePlate : PlateFilters, dateFrom : DatesFrom, dateTo : DatesTo,
     limit : Limits]

\* a caller inserts an event; the results read before it are let go
StoreInsert ==
    /\ Len(events) < MaxRows
    /\ \E event \in StoreEvents, ioError \in BOOLEAN :
           LET done == InsertEvent(events, seq, event, ioError)
           IN  events' = done.events /\ seq' = done.seq
    /\ qres' = NoResult
    /\ sres' = NoResult
    /\ UNCHANGED <<uploads, now, req, dash>>

\* a caller's getAllEvents(options) resolves
StoreGetAllEvents ==
    /\ \E options \in StoreOptions, tie \in TieOrders :
           qres' = [pc |-> "rows", options |-> options, table |-> events,
                    rows |-> GetAllEvents(events, options, tie)]
    /\ UNCHANGED <<events, seq, uploads, now, req, dash, sres>>

\* a caller's getEventStats() resolves
StoreGetEventStats ==
    /\ sres' = [pc |-> "row", table |-> events, row |-> GetEventStats(events)]
    /\ UNCHANGED <<events, seq, uploads, now, req, dash, qres>>

NextStore == StoreInsert \/ StoreGetAllEvents \/ StoreGetEventStats

\* no POST is in flight while the store is driven directly
InitStore ==
    /\ events = << >>
    /\ seq = 0
    /\ uploads = [n \in {} |-> NULL]
    /\ now = 0
    /\ req = [r \in {} |-> NewRequest]
    /\ dash = NoDash
    /\ qres = NoResult
    /\ sres = NoResult

SpecStore == InitStore /\ [][NextStore]_vars

(***************************************************************************)
(* app.get('/'): the dashboard, over a database that earlier runs filled.  *)
(***************************************************************************)
\* limit: 100
DashLimit == 100

Digit(c) == IF c = "0" THEN 0 ELSE IF c = "1" THEN 1 ELSE 9

RECURSIVE ToNumber(_)
\* the integer SQLite reads from a string of digits bound to LIMIT ?
ToNumber(digits) ==
    IF digits = << >> THEN 0
    ELSE 10 * ToNumber(SubSeq(digits, 1, Len(digits) - 1)) + Digit(digits[Len(digits)])

\* the filters with the caller's limit let through: req.query.limit || 100
FiltersCallerLimit(query) ==
    [licensePlate |-> query.licensePlate, dateFrom |-> query.dateFrom,
     dateTo |-> query.dateTo,
     limit |-> IF Truthy(query.limit) THEN <<ToNumber(query.limit)>>
                                      ELSE <<DashLimit>>]

\* the filters the handler builds from req.query; req.query.limit is not read
Filters(query) ==
    [licensePlate |-> query.licensePlate, dateFrom |-> query.dateFrom,
     dateTo |-> query.dateTo, limit |-> <<DashLimit>>]

DashQueries ==
    [licensePlate : {NULL, <<"b">>}, dateFrom : {NULL, <<"1", "0">>},
     dateTo : {NULL}, limit : {NULL, <<"1">>, <<"9", "9", "9">>}]

\* row i of the table events.db holds when the server starts
DashRow(i) ==
    NewRow(i, StoreEvent(IF i % 2 = 0 THEN <<"0">> ELSE <<"1">>,
                         IF i % 3 = 0 THEN <<"9">> ELSE <<"1", "0">>,
                         IF i % 5 = 0 THEN <<"a">> ELSE <<"a", "b">>))

DashTable(n) == [i \in 1..n |-> DashRow(i)]

\* the table sizes that are tried: none, one, and those around the cap
DashSizes == {0, 1} \cup ((MaxDashRows - 2)..MaxDashRows)

InitDash ==
    /\ \E n \in DashSizes : events = DashTable(n) /\ seq = n
    /\ uploads = [n \in {} |-> NULL]
    /\ now = 0
    /\ req = [r \in {} |-> NewRequest]
    /\ dash = NoDash
    /\ qres = NoResult
    /\ sres = NoResult

\* a GET arrives: both promises of Promise.all are created
DashReceive ==
    /\ dash.pc \in {"idle", "rendered", "failed"}
    /\ \E query \in DashQueries :
           dash' = [pc |-> "pending", query |-> query, filters |-> Filters(query),
                    got |-> {}, table |-> << >>, eventsData |-> << >>,
                    stats |-> GetEventStats(<< >>)]
    /\ UNCHANGED <<events, seq, uploads, now, req, qres, sres>>

\* res.send(html) once both have resolved
Render(d) == IF d.got = {"eventsData", "stats"} THEN [d EXCEPT !.pc = "rendered"] ELSE d

\* db.getAllEvents(filters) resolves, or rejects into the catch block (500)
DashGetAllEvents ==
    /\ dash.pc = "pending"
    /\ "eventsData" \notin dash.got
    /\ \E tie \in TieOrders, ioError \in BOOLEAN :
           dash' = IF ioError
                   THEN [dash EXCEPT !.pc = "failed"]
                   ELSE Render([dash EXCEPT
                            !.got = @ \cup {"eventsData"},
                            !.table = events,
                            !.eventsData = GetAllEvents(events, dash.filters, tie)])
    /\ UNCHANGED <<events, seq, uploads, now, req, qres, sres>>

\* db.getEventStats() resolves, or rejects into the catch block (500)
DashGetEventStats ==
    /\ dash.pc = "pending"
    /\ "stats" \notin dash.got
    /\ \E ioError \in BOOLEAN :
           dash' = IF ioError
                   THEN [dash EXCEPT !.pc = "failed"]
                   ELSE Render([dash EXCEPT !.got = @ \cup {"stats"},
                                            !.stats = GetEventStats(events)])
    /\ UNCHANGED <<events, seq, uploads, now, req, qres, sres>>

NextDash == DashReceive \/ DashGetAllEvents \/ DashGetEventStats

SpecDash == InitDash /\ [][NextDash]_vars

(***************************************************************************)
(* The server with readers: POSTs in flight while GET / reads the store,   *)
(* also between the INSERT of a submission and its response. The requests  *)
(* and the reads fall within one millisecond.                              *)
(***************************************************************************)
\* the query of GET / without a query string
PlainQuery == [licensePlate |-> NULL, dateFrom |-> NULL, dateTo |-> NULL,
               limit |-> NULL]

\* db.getAllEvents(filters) of a GET / resolves
ServerGetAllEvents ==
    /\ \E tie \in TieOrders :
           qres' = [pc |-> "rows", options |-> Filters(PlainQuery),
                    table |-> events,
                    rows |-> GetAllEvents(events, Filters(PlainQuery), tie)]
    /\ UNCHANGED <<events, seq, uploads, now, req, dash, sres>>

\* db.run executes the INSERT and the promise of insertEvent settles; the
\* handler has not gone on yet
InsertSettles(r) ==
    /\ req[r].pc = "inserting"
    /\ \E ioError \in BOOLEAN :
           LET done == InsertEvent(events, seq, req[r].event, ioError)
           IN  /\ events' = done.events
               /\ seq' = done.seq
               /\ req' = [req EXCEPT ![r] = Settle(@, done)]
    /\ UNCHANGED <<uploads, now, dash, qres, sres>>

\* the handler goes on after the await and answers
Respond(r) ==
    /\ req[r].pc \in {"resolved", "rejected"}
    /\ req' = [req EXCEPT ![r] = Answer(@)]
    /\ UNCHANGED <<events, seq, uploads, now, dash, qres, sres>>

NextServer ==
    \/ \E r \in Requests : Receive(r)
    \/ \E r \in Requests : StorePart(r)
    \/ \E r \in Requests : InsertSettles(r)
    \/ \E r \in Requests : Respond(r)
    \/ ServerGetAllEvents
    \/ StoreGetEventStats

SpecServer == Init /\ [][NextServer]_vars

(***************************************************************************)
(* src/server.js: the variant that keeps each event as a JSON file in the  *)
(* upload directory. Its storage.filename, fileFilter, limits, parameter   *)
(* check and error-handling middleware read as those of the server above   *)
(* and are modelled by the same operators; upload.fields takes two fields, *)
(* and the handler is synchronous.                                         *)
(***************************************************************************)
\* upload.fields: licensePlatePicture.jpg and vehiclePicture.jpg
FileFields == {"licensePlate", "vehicle"}

NoFileFiles == [f \in FileFields |-> NULL]

\* req.files?.['licensePlatePicture.jpg']?.[0] || req.files?.['vehiclePicture.jpg']?.[0]
FileUploadedFile(files) ==
    IF files.licensePlate # NULL THEN files.licensePlate ELSE files.vehicle

\* the event object of the variant
FileEvent(query, files) ==
    [channelID |-> query.channelID,
     dateTime |-> query.dateTime,
     eventType |-> query.eventType,
     licensePlate |-> query.licensePlate,
     imageFile |-> FileUploadedFile(files)]

\* JSON.stringify(event, null, 2): the text of the event file
Stringify(event) ==
    <<"{", event.channelID, event.dateTime, event.eventType,
      event.licensePlate, event.imageFile, "}">>

\* `${licensePlate}_${timestamp}.json`
EventFileName(licensePlate, t) ==
    licensePlate \o <<"_">> \o Stamp(t) \o <<".json">>

\* file.endsWith('.json')
EndsWithJson(name) == Len(name) > 0 /\ name[Len(name)] = ".json"

\* fs.readdirSync(uploadDir).filter(file => file.endsWith('.json'))
EventFiles(dir) == {name \in DOMAIN dir : EndsWithJson(name)}

\* a request of the variant that has not arrived
NewFileRequest ==
    [pc |-> "new", query |-> NoQuery, carried |-> {}, parts |-> << >>,
     files |-> NoFileFiles, rejected |-> "", event |-> FileEvent(NoQuery, NoFileFiles),
     status |-> 0, error |-> "", id |-> 0]

\* the files this request has put into the upload directory
FileStored(request) == {request.files[f] : f \in FileFields} \ {NULL}

\* the clock reaches the next millisecond (while a request may still read it)
FileTick ==
    /\ now < MaxClock
    /\ \E r \in Requests : req[r].pc \in {"new", "upload", "handling"}
    /\ now' = now + 1
    /\ UNCHANGED <<events, seq, uploads, req, dash, qres, sres>>

\* a POST arrives carrying query q and one image part for each field of S
FileReceive(r) ==
    /\ req[r].pc = "new"
    /\ \A o \in Requests : o < r => req[o].pc # "new"
    /\ \E q \in Queries, S \in SUBSET FileFields :
           req' = [req EXCEPT ![r] =
                     [NewFileRequest EXCEPT
                          !.pc = IF S = {} THEN "handling" ELSE "upload",
                          !.query = q, !.carried = S, !.parts = PartsOf(S)]]
    /\ UNCHANGED <<events, seq, uploads, now, dash, qres, sres>>

\* the middleware takes the next image part of the body, as in the server
\* above; after the last part it calls next()
FileStorePart(r) ==
    /\ req[r].pc = "upload"
    /\ \E mimetype \in MimeTypes, size \in Sizes, ext \in Exts :
           LET request == req[r]
               f == Head(request.parts)
               rest == Tail(request.parts)
               name == Filename(request.query.licensePlate, now, ext)
               files == [request.files EXCEPT ![f] = name]
           IN  IF ~FileFilter(mimetype)
               THEN /\ uploads' = RemoveFiles(uploads, FileStored(request))
                    /\ req' = [req EXCEPT ![r] = ErrorMiddleware(request,
                                         "Only JPEG images are allowed")]
               ELSE IF size > FileSizeLimit
               THEN /\ uploads' = RemoveFiles(uploads,
                                              FileStored(request) \cup {name})
                    /\ req' = [req EXCEPT ![r] = ErrorMiddleware(request,
                                         "LIMIT_FILE_SIZE")]
               ELSE /\ uploads' = WriteFile(uploads, name, Content(r, f))
                    /\ req' = [req EXCEPT ![r] =
                                 [request EXCEPT
                                      !.pc = IF rest = << >> THEN "handling"
                                                             ELSE "upload",
                                      !.parts = rest, !.files = files]]
    /\ UNCHANGED <<events, seq, now, dash, qres, sres>>

\* the handler runs, in one turn of the event loop: 400, or the event file
\* is written under the plate and the time of this moment and the answer is
\* 200, or writeFileSync throws and the catch block answers 500
FileHandle(r) ==
    /\ req[r].pc = "handling"
    /\ \E ioError \in BOOLEAN :
           LET request == req[r]
               event == FileEvent(request.query, request.files)
               name == EventFileName(request.query.licensePlate, now)
           IN  IF ~Validate(request.query)
               THEN /\ uploads' = uploads
                    /\ req' = [req EXCEPT ![r] =
                                 [request EXCEPT !.pc = "done", !.status = 400,
                                      !.error = "Missing required parameters"]]
               ELSE IF ioError
               THEN /\ uploads' = uploads
                    /\ req' = [req EXCEPT ![r] =
                                 [request EXCEPT !.pc = "done", !.event = event,
                                      !.status = 500,
                                      !.error = "Internal server error"]]
               ELSE /\ uploads' = WriteFile(uploads, name, Stringify(event))
                    /\ req' = [req EXCEPT ![r] =
                                 [request EXCEPT !.pc = "done", !.event = event,
                                      !.status = 200]]
    /\ UNCHANGED <<events, seq, now, dash, qres, sres>>

\* GET /: the dashboard reads every event file of the directory (eventsData,
\* here by file name)
FileGet ==
    /\ qres' = [pc |-> "listed",
                eventsData |-> [name \in EventFiles(uploads) |-> uploads[name]]]
    /\ UNCHANGED <<events, seq, uploads, now, req, dash, sres>>

NextFile ==
    \/ FileTick
    \/ \E r \in Requests : FileReceive(r)
    \/ \E r \in Requests : FileStorePart(r)
    \/ \E r \in Requests : FileHandle(r)
    \/ FileGet

InitFile ==
    /\ events = << >>
    /\ seq = 0
    /\ uploads = [n \in {} |-> NULL]
    /\ now = 0
    /\ req = [r \in Requests |-> NewFileRequest]
    /\ dash = NoDash
    /\ qres = NoResult
    /\ sres = NoResult

SpecFile == InitFile /\ [][NextFile]_vars

(***************************************************************************)
(* Properties of the ingestion endpoint.                                   *)
(***************************************************************************)
Done(r) == req[r].pc = "done"

\* the request is answered in this step
Answered(r) == req[r].pc # "done" /\ req'[r].pc = "done"

RowImage(row, f) ==
    IF f = "licensePlate" THEN row.licensePlateImage
    ELSE IF f = "vehicle" THEN row.vehicleImage
    ELSE row.detectionImage

\* the rows that request r inserted
RowsOf(r) == {i \in 1..Len(events) : req[r].id # 0 /\ events[i].id = req[r].id}

\* C1: every submission that lacks a required parameter, or has it empty, is
\* answered 400 {error: "Missing required parameters"} whatever image parts
\* it carries, and the step that answers it leaves the events table as it was.
C1_MissingAnswered400 ==
    [][\A r \in Requests :
           (Answered(r) /\ ~Validate(req'[r].query)) =>
               /\ req'[r].status = 400
               /\ req'[r].error = "Missing required parameters"
               /\ events' = events]_vars

\* C2: every row of the events table has an id and a non-empty channelID,
\* dateTime, eventType and licensePlate, in every reachable state.
C2_RowsComplete ==
    \A i \in 1..Len(events) :
        /\ events[i].id \in 1..seq
        /\ Truthy(events[i].channelID)
        /\ Truthy(events[i].dateTime)
        /\ Truthy(events[i].eventType)
        /\ Truthy(events[i].licensePlate)

\* two requests that ran side by side have each inserted a row, one of them
\* with images
C2_Witness ==
    /\ Len(events) = NReq
    /\ \E i \in 1..Len(events) : events[i].licensePlateImage # NULL

\* C3: every image reference of a persisted event names a file of the upload
\* directory, and a submission one of whose image parts was refused has no
\* row.
C3_NoDanglingReference ==
    /\ \A i \in 1..Len(events) : \A f \in Fields :
           RowImage(events[i], f) # NULL => RowImage(events[i], f) \in DOMAIN uploads
    /\ \A r \in Requests : req[r].rejected # "" => RowsOf(r) = {}

\* C4: after the success response every image reference of the event names a
\* file of the upload directory that holds the image part submitted under
\* that field.
C4_StoredImageIdentical ==
    \A r \in Requests : \A f \in Fields :
        (Done(r) /\ req[r].status = 200 /\ req[r].event.images[f] # NULL) =>
            /\ req[r].event.images[f] \in DOMAIN uploads
            /\ uploads[req[r].event.images[f]] = Content(r, f)

\* the row of request r has an image reference exactly for the fields of S
RowMatches(r, S) ==
    \E i \in RowsOf(r) :
        /\ events[i].licensePlate = req[r].query.licensePlate
        /\ events[i].channelID = req[r].query.channelID
        /\ events[i].dateTime = req[r].query.dateTime
        /\ events[i].eventType = req[r].query.eventType
        /\ \A f \in Fields : (RowImage(events[i], f) # NULL) <=> (f \in S)

\* a complete submission all of whose image parts the middleware accepted
ValidAccepted(r) == Done(r) /\ Validate(req[r].query) /\ req[r].rejected = ""

\* C5 as stated: every valid submission carrying images for the fields of S is
\* inserted and answered 200, with image references exactly for S.
C5_ValidAlwaysInserted ==
    \A r \in Requests :
        ValidAccepted(r) => req[r].status = 200 /\ RowMatches(r, req[r].carried)

\* C5 amended: every valid submission carrying images for the fields of S is
\* answered 200 with a row whose image references are non-null exactly for S
\* (all null for no image), unless the store rejects the insert: then it is
\* answered 500 and no row is added; the rows are as many as the 200 answers.
C5_ValidInsertedUnlessStoreFails ==
    /\ \A r \in Requests :
           ValidAccepted(r) =>
               \/ req[r].status = 200 /\ RowMatches(r, req[r].carried)
               \/ /\ req[r].status = 500
                  /\ req[r].error = "Internal server error"
                  /\ RowsOf(r) = {}
    /\ Len(events) = Cardinality({r \in Requests : req[r].status = 200})

\* one submission with the license-plate image alone and one without images
\* have both been answered 200
C5_Witness ==
    \E r, o \in Requests :
        /\ ValidAccepted(r) /\ req[r].status = 200
        /\ req[r].carried = {"licensePlate"}
        /\ ValidAccepted(o) /\ req[o].status = 200
        /\ req[o].carried = {}

(***************************************************************************)
(* Properties of the event store and of the dashboard.                     *)
(***************************************************************************)
\* f occurs in s as a run of consecutive characters
Contains(s, f) ==
    \E k \in 0..(Len(s) - Len(f)) : SubSeq(s, k + 1, k + Len(f)) = f

\* the row satisfies every filter field that was supplied
Satisfies(row, options) ==
    /\ options.licensePlate # NULL => Contains(row.licensePlate, options.licensePlate)
    /\ options.dateFrom # NULL => BinaryLeq(options.dateFrom, row.dateTime)
    /\ options.dateTo # NULL => BinaryLeq(row.dateTime, options.dateTo)

Range(rows) == {rows[i] : i \in 1..Len(rows)}

\* C6: getAllEvents(filter) returns exactly the persisted events whose
\* licensePlate contains the licensePlate filter as a literal substring and
\* whose dateTime lies within dateFrom and dateTo (inclusive, compared as
\* strings), an omitted field imposing no constraint, each as it was inserted.
C6_ExactlyTheMatchingEvents ==
    (qres.pc = "rows" /\ qres.options.limit = NoLimit) =>
        /\ Range(qres.rows) =
               {row \in Range(qres.table) : Satisfies(row, qres.options)}
        /\ Len(qres.rows) = Cardinality(Range(qres.rows))

\* C7: the sequence getAllEvents returns is ordered by dateTime descending,
\* and events of equal dateTime follow each other by id descending.
C7_TiesByIdDescending ==
    qres.pc = "rows" =>
        \A i, j \in 1..Len(qres.rows) :
            i < j =>
                \/ BinaryLess(qres.rows[j].dateTime, qres.rows[i].dateTime)
                \/ /\ qres.rows[j].dateTime = qres.rows[i].dateTime
                   /\ qres.rows[i].id > qres.rows[j].id

\* C8: getEventStats() returns the number of rows, the number of distinct
\* licensePlate values, the number of distinct channelID values and the
\* greatest dateTime (as a string) of all rows (NULL when there is none).
C8_StatsOfAllRows ==
    sres.pc = "row" =>
        LET table == Range(sres.table)
        IN  /\ sres.row.totalEvents = Len(sres.table)
            /\ sres.row.uniqueVehicles =
                   Cardinality({row.licensePlate : row \in table})
            /\ sres.row.activeChannels =
                   Cardinality({row.channelID : row \in table})
            /\ IF table = {}
               THEN sres.row.lastDetection = NULL
               ELSE /\ sres.row.lastDetection \in {row.dateTime : row \in table}
                    /\ \A row \in table :
                           BinaryLeq(row.dateTime, sres.row.lastDetection)

\* the stats of two rows of one channel and two plates, the later-sorting
\* dateTime "9" beside "10"
C8_Witness ==
    /\ sres.pc = "row"
    /\ sres.row.totalEvents = 2
    /\ sres.row.uniqueVehicles = 2
    /\ sres.row.activeChannels = 1
    /\ sres.row.lastDetection = <<"9">>

\* the rows of the table the dashboard read that pass its filters
DashMatching == {row \in Range(dash.table) : Where(row, dash.filters)}

\* C9: every GET hands at most 100 events to the renderer, whatever the table
\* holds and whatever the query says (a limit included), and they are the
\* first 100 of the filtered result in dateTime-descending order.
C9_AtMostHundred ==
    (dash.pc \in {"pending", "rendered"} /\ "eventsData" \in dash.got) =>
        LET given == dash.eventsData
        IN  /\ Len(given) <= 100
            /\ Len(given) = IF Cardinality(DashMatching) < 100
                            THEN Cardinality(DashMatching) ELSE 100
            /\ Range(given) \subseteq DashMatching
            /\ Cardinality(Range(given)) = Len(given)
            /\ \A i \in 1..(Len(given) - 1) :
                   BinaryLeq(given[i + 1].dateTime, given[i].dateTime)
            /\ \A row \in DashMatching \ Range(given) :
                   \A i \in 1..Len(given) :
                       BinaryLeq(row.dateTime, given[i].dateTime)

\* a dashboard rendered from more than 100 matching rows, for a request that
\* asked for a limit of 999
C9_Witness ==
    /\ dash.pc = "rendered"
    /\ dash.query.limit = <<"9", "9", "9">>
    /\ Cardinality(DashMatching) > 100
    /\ Len(dash.eventsData) = 100

C11_IdsStrictlyIncreasing ==
    /\ \A i \in 1..Len(events) : events[i].id \in 1..seq
    /\ \A i, j \in 1..Len(events) : i < j => events[i].id < events[j].id
    /\ \A r, o \in Requests :
           (r # o /\ req[r].status = 200 /\ req[o].status = 200) =>
               req[r].id # req[o].id

\* the request that arrived second committed first, and both have their ids
C11_Witness ==
    /\ Len(events) = 2
    /\ req[2].status = 200 /\ req[2].id = events[1].id
    /\ req[1].status = 200 /\ req[1].id = events[2].id

\* a row is inserted for request r in this step
Inserted(r) == req[r].pc = "inserting" /\ req'[r].pc = "resolved"

\* C12: a row once in the table stays there with every field as it was
\* inserted: each step leaves the rows it found in place and unchanged; a
\* read (getAllEvents, getEventStats), a response and a rejected insert
\* leave the table as it was, and an insert that resolves appends one row
\* and nothing else.
C12_RowsImmutable ==
    [][/\ Len(events') >= Len(events)
       /\ SubSeq(events', 1, Len(events)) = events
       /\ (qres' # qres \/ sres' # sres) => events' = events
       /\ \A r \in Requests :
              /\ Answered(r) => events' = events
              /\ Inserted(r) => /\ Len(events') = Len(events) + 1
                                /\ events'[Len(events')].id = req'[r].id
       /\ (\A r \in Requests : ~Inserted(r)) => events' = events]_vars

\* both reads saw the table with one row, a second row was appended after
\* them, and the first row is still what the reads saw
C12_Witness ==
    /\ Len(events) = 2
    /\ qres.pc = "rows" /\ qres.table = <<events[1]>>
    /\ sres.pc = "row" /\ sres.table = <<events[1]>>

\* the rows a reader holds: the result of getAllEvents, and the tables the
\* reads ran over
Observed ==
    (IF qres.pc = "rows" THEN Range(qres.rows) \cup Range(qres.table) ELSE {})
        \cup (IF sres.pc = "row" THEN Range(sres.table) ELSE {})

\* the insert of request r was rejected
InsertRejected(r) ==
    \/ req[r].pc = "rejected"
    \/ Done(r) /\ Validate(req[r].query) /\ req[r].rejected = ""
               /\ req[r].status = 500

\* C13: a submission is answered 200 only once its insertEvent has resolved,
\* and the row of that id is then in the table, one row for each resolved
\* insert; a submission whose insertEvent rejects is answered 500 {error:
\* "Internal server error"} without the insert being issued again, the table
\* never holds a row for it, and no reader ever holds a row other than those
\* of the resolved inserts.
C13_SuccessOnlyAfterInsert ==
    [][/\ \A r \in Requests :
              /\ (Answered(r) /\ req'[r].status = 200) =>
                     /\ req[r].pc = "resolved"
                     /\ Cardinality(RowsOf(r)) = 1
                     /\ events' = events
              /\ req[r].pc = "rejected" =>
                     /\ RowsOf(r) = {}
                     /\ req'[r].pc \in {"rejected", "done"}
                     /\ Answered(r) => /\ req'[r].status = 500
                                       /\ req'[r].error = "Internal server error"
                                       /\ events' = events
              /\ (InsertRejected(r))' => (RowsOf(r))' = {}
       /\ Len(events') =
              Cardinality({r \in Requests : req'[r].pc = "resolved"
                                            \/ req'[r].status = 200})
       /\ \A row \in Observed' :
              \E r \in Requests :
                  /\ req'[r].pc = "resolved" \/ req'[r].status = 200
                  /\ req'[r].id = row.id]_vars

\* a reader holds the row of a submission whose insert has resolved and that
\* is not answered yet, while the other submission's insert was rejected and
\* answered 500
C13_Witness ==
    \E r, o \in Requests :
        /\ req[r].pc = "resolved"
        /\ qres.pc = "rows" /\ Len(qres.rows) = 1 /\ qres.rows[1].id = req[r].id
        /\ Done(o) /\ InsertRejected(o)
        /\ events = qres.rows

\* the required-parameter check of request r has passed
Validated(r) ==
    \/ req[r].pc \in {"inserting", "resolved", "rejected"}
    \/ Done(r) /\ req[r].rejected = "" /\ req[r].status # 400

\* an image part of request r is written to the upload directory in this step
PartWritten(r) ==
    /\ req[r].pc = "upload"
    /\ \E f \in Fields : req[r].files[f] = NULL /\ req'[r].files[f] # NULL

\* C14: a submission goes Received, Validated, AttachmentsStored, Persisted,
\* Responded: no image part of it is written to the upload directory before
\* its required-parameter check has passed, and its row is inserted only
\* once all its image parts are stored.
C14_ValidatedBeforeStored ==
    [][\A r \in Requests :
           /\ PartWritten(r) => Validated(r)
           /\ (req[r].id = 0 /\ req'[r].id # 0) =>
                  /\ req[r].parts = << >>
                  /\ \A f \in req[r].carried : req[r].files[f] # NULL]_vars

\* C15: a submission with an image part that is not image/jpeg, or one over
\* 10 MiB, is answered with a client error (a 4xx status) and has no row,
\* whatever its query and its other image parts.
C15_RefusedPartClientError ==
    \A r \in Requests :
        (Done(r) /\ req[r].rejected # "") =>
            /\ req[r].status \in 400..499
            /\ RowsOf(r) = {}

\* the words of the error texts the server sends
Words(message) ==
    IF message = "Missing required parameters"
    THEN <<"Missing", "required", "parameters">>
    ELSE IF message = "Internal server error"
    THEN <<"Internal", "server", "error">>
    ELSE << >>

\* the first required parameter the query lacks, in the order channelID,
\* dateTime, eventType, licensePlate
FirstMissing(query) ==
    IF ~Truthy(query.channelID) THEN "channelID"
    ELSE IF ~Truthy(query.dateTime) THEN "dateTime"
    ELSE IF ~Truthy(query.eventType) THEN "eventType"
    ELSE "licensePlate"

\* C16: the error returned for a submission that lacks required parameters
\* names the first one it lacks, in the order channelID, dateTime, eventType,
\* licensePlate.
C16_ErrorNamesFirstMissing ==
    \A r \in Requests :
        (Done(r) /\ ~Validate(req[r].query) /\ req[r].status = 400) =>
            Contains(Words(req[r].error), <<FirstMissing(req[r].query)>>)

\* the first of the fields license-plate, vehicle, detection that has an
\* image in images, or none
FirstPresent(images) ==
    IF images.licensePlate # NULL THEN images.licensePlate
    ELSE IF images.vehicle # NULL THEN images.vehicle
    ELSE IF images.detection # NULL THEN images.detection
    ELSE NULL

\* C17: the imageFile of the event of every valid submission is the
\* reference of the first image present in the order license-plate, vehicle,
\* detection, is null exactly when the submission carries no image, and so is
\* one of the three image references or null.
C17_ImageFileFirstPresent ==
    \A r \in Requests :
        Validated(r) =>
            LET event == req[r].event
            IN  /\ event.imageFile = FirstPresent(event.images)
                /\ (event.imageFile = NULL) <=> (req[r].carried = {})
                /\ event.imageFile \in
                       {event.images[f] : f \in Fields} \cup {NULL}

\* a submission answered 200 that carried the vehicle and the detection
\* image, stored under different names, with the vehicle image as imageFile
C17_Witness ==
    \E r \in Requests :
        /\ Done(r) /\ req[r].status = 200
        /\ req[r].carried = {"vehicle", "detection"}
        /\ req[r].event.images.vehicle # req[r].event.images.detection
        /\ req[r].event.imageFile = req[r].event.images.vehicle

\* where the request stands and what it was answered
Response(request) ==
    <<request.pc, request.status, request.error, request.id>>

\* request r fails in this step: answered 400 or 500
Fails(r) == Answered(r) /\ req'[r].status # 200

\* C18: every ingestion request that has arrived is eventually answered, once
\* and with 200, 400 or 500: the answer given stays as it is; and the step
\* in which a request fails changes no other request, its response
\* included, and no row, so that the requests after it are answered as well.
C18_EveryRequestAnswered ==
    /\ \A r \in Requests : (req[r].pc # "new") ~> Done(r)
    /\ [][\A r \in Requests :
              /\ Answered(r) => req'[r].status \in {200, 400, 500}
              /\ Done(r) => Response(req'[r]) = Response(req[r])
              /\ Fails(r) =>
                     /\ events' = events
                     /\ \A o \in Requests \ {r} :
                            Response(req'[o]) = Response(req[o])]_vars

\* the first request was refused in the upload, the second was answered 200
\* and has its row
C18_Witness ==
    /\ Done(1) /\ req[1].rejected # "" /\ req[1].status = 500
    /\ Done(2) /\ req[2].status = 200 /\ Cardinality(RowsOf(2)) = 1

\* the rows of the table that the filter of options lets through
Matching(table, options) ==
    Len(SelectSeq(table, LAMBDA row : Where(row, options)))

\* C19: the result of getAllEvents with a limit L has at most L events and
\* is the first min(L, number of matching events) events of the ordered
\* result without limit for the same filter; without a limit every matching
\* event is returned.
C19_LimitCapsResult ==
    qres.pc = "rows" =>
        LET options == qres.options
            unlimited == [options EXCEPT !.limit = NoLimit]
            matching == Matching(qres.table, options)
        IN  IF options.limit = NoLimit
            THEN Len(qres.rows) = matching
            ELSE LET L == options.limit[1]
                     n == IF L < matching THEN L ELSE matching
                 IN  /\ Len(qres.rows) <= L
                     /\ \E tie \in TieOrders :
                            qres.rows =
                                SubSeq(GetAllEvents(qres.table, unlimited, tie),
                                       1, n)

\* C20: the image references of the event of one submission that carries two
\* or three image parts name pairwise different files.
C20_NamesDistinctWithinSubmission ==
    \A r \in Requests :
        Validated(r) =>
            \A f, g \in Fields :
                (f # g /\ req[r].event.images[f] # NULL
                       /\ req[r].event.images[g] # NULL) =>
                    req[r].event.images[f] # req[r].event.images[g]

(***************************************************************************)
(* Properties of the JSON-file variant.                                    *)
(***************************************************************************)
\* the requests answered 200
Accepted == {r \in Requests : req[r].status = 200}

\* C21: in the JSON-file variant every submission answered 200 adds one
\* event record; no later step removes or replaces an event record, so every
\* dashboard read lists all the records stored before it; and the events
\* listed are as many as the 200 responses given so far.
C21_EveryAcceptedEventKept ==
    [][/\ \A name \in EventFiles(uploads) :
              /\ name \in EventFiles(uploads')
              /\ uploads'[name] = uploads[name]
       /\ \A r \in Requests :
              (Answered(r) /\ req'[r].status = 200) =>
                  Cardinality(EventFiles(uploads')) =
                      Cardinality(EventFiles(uploads)) + 1
       /\ Cardinality(EventFiles(uploads')) = Cardinality(Accepted')
       /\ qres'.pc = "listed" =>
              Cardinality(DOMAIN qres'.eventsData) <= Cardinality(Accepted')]_vars

====
